---- MODULE Spec2Model ----
(***************************************************************************)
(* The panoramic viewer component (PanoramicViewer) in its two variants:   *)
(*   "perspective"  src/unnamed/part_000  (markers by projectToScreen)     *)
(*   "spherical"    src/src/components/PanoramicViewer.tsx                 *)
(*                                      (markers by getScreenPosition)     *)
(*                                                                         *)
(* Numbers.  The code works in IEEE doubles; the model works in exact      *)
(* integers on these grids:                                                *)
(*   - a rotation angle is a record [k, q] standing for the real number    *)
(*     k * 0.005 + q * (PI/2) radians: every drag adds a multiple of the   *)
(*     0.005 sensitivity and every clamp stores exactly +-PI/2.  The       *)
(*     double the code holds differs from that real number by what the     *)
(*     roundings of the drags have summed up to, about 1e-16;              *)
(*   - the field of view is counted in steps of 0.05 degree, the wheel     *)
(*     sensitivity (75 degrees = 1500);                                    *)
(*   - sines and cosines of the rotation angles are carried to twenty      *)
(*     decimal places (good to sixteen), and view-space coordinates are    *)
(*     integer combinations of them, so that the sign of a depth is the    *)
(*     sign the code computes;                                             *)
(*   - a number the fixed-point range cannot hold, and a division by zero, *)
(*     are carried as <<"inf", sign>> or <<"nan", 0>>, a finite pixel      *)
(*     coordinate as <<"num", n>>;                                         *)
(*   - where a view-space coordinate is zero in exact arithmetic the       *)
(*     code's coordinate is what the roundings leave: the residue of the   *)
(*     pitch or of the yaw times a factor, or a rounding residue of the    *)
(*     camera's inverse matrix.  Its sign depends on the doubles the       *)
(*     drags summed up to: the model takes the signs of these residues as  *)
(*     an input of the projection (Residues) and carries the quotient of   *)
(*     two unrelated residues as <<"unknown", 0>>.                         *)
(***************************************************************************)
EXTENDS Integers, Sequences, FiniteSets, TLC

VARIABLES
    variant,          \* which of the two source files is running
    phase,            \* "created" (rendered, effect not yet run), "mounted", "unmounted"
    mountRef,         \* mountRef.current: "div" or "null"
    rotation,         \* camera.rotation: [x |-> pitch, y |-> yaw], each an angle [k, q]
    fov,              \* camera.fov, in steps of 0.05 degree
    projection,       \* what camera.projectionMatrix was last computed from: [fov, aspect]
    matrixWorld,      \* the rotation camera.matrixWorld(Inverse) was last computed from
    isDragging,       \* isDraggingRef.current
    previousMouse,    \* previousMouseRef.current
    cameraRotation,   \* React state of the spherical variant
    selectedHotspot,  \* React state: a hotspot id or "null"
    isLoading,        \* React state
    hotspotPositions, \* React state of the perspective variant: id -> anchor (a partial map)
    markers,          \* the hotspot markers in the DOM: id -> {style}, {} for none
    textureLoad,      \* the TextureLoader request: "idle", "pending", "loaded", "failed"
    sceneChildren,    \* scene.children
    listeners,        \* registered event listeners, as <<target, type>>
    rafPending,       \* ids of the animation-frame requests not yet run or cancelled
    animationRef,     \* animationRef.current: a request id, 0 for undefined
    domAttached,      \* renderer.domElement is a child of the container div
    disposed,         \* renderer.dispose() has run
    viewport,         \* [w, h]: window.innerWidth, window.innerHeight
    rendererSize,     \* the size last given to renderer.setSize
    lastOp,           \* history: the handler that ran last, with what it started from
    fnIn,             \* pure-function specifications: the arguments drawn
    fnOut             \* pure-function specifications: the result

vars == <<variant, phase, mountRef, rotation, fov, projection, matrixWorld, isDragging,
          previousMouse, cameraRotation, selectedHotspot, isLoading, hotspotPositions,
          markers, textureLoad, sceneChildren, listeners, rafPending, animationRef,
          domAttached, disposed, viewport, rendererSize, lastOp, fnIn, fnOut>>

cameraVars == <<rotation, fov, projection>>
dragVars == <<isDragging, previousMouse>>
uiVars == <<selectedHotspot, isLoading>>
loadVars == <<textureLoad, sceneChildren>>
lifeVars == <<phase, mountRef, listeners, rafPending, animationRef, domAttached, disposed>>
sizeVars == <<viewport, rendererSize>>
fnVars == <<fnIn, fnOut>>

----------------------------------------------------------------------------
(* Bounds of the model *)

\* The yaw is unbounded in the code; a drag is taken only while |yaw| stays
\* within MaxYawTurns quarter-turn drags of the start.
MaxYawTurns == 1

----------------------------------------------------------------------------
(* Program constants *)

\* 1 / 0.005: rotation steps per radian (camera.rotation -= delta * 0.005)
StepsPerRadian == 200
\* 1 / 0.05: field-of-view steps per degree (camera.fov + event.deltaY * 0.05)
StepsPerDegree == 20
\* new THREE.PerspectiveCamera(75, ...), cameraRef.current.fov = 75
DefaultFovDeg == 75
\* Math.max(10, ...)
MinFovDeg == 10
\* Math.min(120, ...)
MaxFovDeg == 120
\* cameraRef.current.fov - 10, cameraRef.current.fov + 10
ZoomStepDeg == 10
\* Math.PI / 2 in units of 1e-4 radian
HalfPi == 15708

TrigOne == 10 ^ 4
\* one rotation step (0.005 rad) in units of 1e-4 radian
StepFP == TrigOne \div StepsPerRadian

DefaultFov == DefaultFovDeg * StepsPerDegree
MinFov == MinFovDeg * StepsPerDegree
MaxFov == MaxFovDeg * StepsPerDegree
ZoomStep == ZoomStepDeg * StepsPerDegree

Variants == {"perspective", "spherical"}

----------------------------------------------------------------------------
(* Angles *)

Angle(k, q) == [k |-> k, q |-> q]
ZeroAngle == Angle(0, 0)

\* the angle in units of 1e-4 radian (PI/2 rounded to 15708: no multiple of the
\* 0.005 step lies between the rounded and the true value, so the comparisons
\* below decide as the reals do)
AngleFP(a) == a.k * StepFP + a.q * HalfPi

\* a - d * 0.005
AngleMinus(a, d) == Angle(a.k - d, a.q)

\* ClampPitch without the Math.min: the upper limit is forgotten
ClampPitchLowerOnly(a) ==
    IF AngleFP(a) < -HalfPi THEN Angle(0, -1) ELSE a

\* Math.max(-Math.PI / 2, Math.min(Math.PI / 2, a))
ClampPitch(a) ==
    IF AngleFP(a) > HalfPi THEN Angle(0, 1)
    ELSE IF AngleFP(a) < -HalfPi THEN Angle(0, -1)
    ELSE a

Abs(n) == IF n < 0 THEN -n ELSE n

----------------------------------------------------------------------------
(* Field of view *)

Max(a, b) == IF a > b THEN a ELSE b
Min(a, b) == IF a < b THEN a ELSE b

\* WheelFov with the wheel turned round: camera.fov - event.deltaY * 0.05
WheelFovSubtracts(f, deltaY) == Max(MinFov, Min(MaxFov, f - deltaY))

\* handleWheel: Math.max(10, Math.min(120, camera.fov + event.deltaY * 0.05))
WheelFov(f, deltaY) == Max(MinFov, Min(MaxFov, f + deltaY))

\* ZoomInFov with the lower limit written as 20
ZoomInFovFloor20(f) == Max(2 * MinFov, f - ZoomStep)

\* zoomIn: Math.max(10, fov - 10)
ZoomInFov(f) == Max(MinFov, f - ZoomStep)

\* zoomOut: Math.min(120, fov + 10)
ZoomOutFov(f) == Min(MaxFov, f + ZoomStep)

----------------------------------------------------------------------------
(* The configured hotspots *)

HotspotIds == {"jersey-display", "trophy-case", "basketball-collection", "poster-gallery"}

\* const hotspots: Hotspot[] of the perspective variant: 3D world coordinates
hotspotsPerspective ==
    [id \in HotspotIds |->
        CASE id = "jersey-display" -> <<100, 0, -200>>
          [] id = "trophy-case" -> <<-200, 20, -100>>
          [] id = "basketball-collection" -> <<-100, -20, 200>>
          [] id = "poster-gallery" -> <<200, 10, 100>>]

\* const hotspots: Hotspot[] of the spherical variant: longitude, latitude, unused
hotspotsSpherical ==
    [id \in HotspotIds |->
        CASE id = "jersey-display" -> <<45, -5, -8>>
          [] id = "trophy-case" -> <<-90, 10, -6>>
          [] id = "basketball-collection" -> <<135, -10, 4>>
          [] id = "poster-gallery" -> <<-135, 5, 2>>]

hotspots(v) == IF v = "perspective" THEN hotspotsPerspective ELSE hotspotsSpherical

----------------------------------------------------------------------------
(* Fixed-point arithmetic *)

Sign(n) == IF n > 0 THEN 1 ELSE IF n < 0 THEN -1 ELSE 0

\* n / m rounded to the nearest integer, halves away from zero (m > 0)
DivRound(n, m) == Sign(n) * ((2 * Abs(n) + m) \div (2 * m))

Num(n) == <<"num", n>>
Inf(s) == <<"inf", s>>
NaN == <<"nan", 0>>
\* a number that is the quotient of two rounding residues: the state of the model
\* does not fix it
Unknown == <<"unknown", 0>>

\* Math.sin on [0, PI/2], by its Taylor series to the x^9 term
SinSeries(x) ==
    LET x2 == (x * x) \div TrigOne
        h9 == TrigOne - x2 \div 72
        h7 == TrigOne - ((x2 * h9) \div TrigOne) \div 42
        h5 == TrigOne - ((x2 * h7) \div TrigOne) \div 20
        h3 == TrigOne - ((x2 * h5) \div TrigOne) \div 6
    IN  DivRound(x * h3, TrigOne)

\* Math.sin of x (units of 1e-4 radian), reduced to [-PI/2, PI/2] first
SinFP(x) ==
    LET r0 == x % (4 * HalfPi)
        r1 == IF r0 > 2 * HalfPi THEN r0 - 4 * HalfPi ELSE r0
        r2 == IF r1 > HalfPi THEN 2 * HalfPi - r1
              ELSE IF r1 < -HalfPi THEN -(2 * HalfPi) - r1
              ELSE r1
    IN  Sign(r2) * SinSeries(Abs(r2))

CosFP(x) == SinFP(x + HalfPi)

----------------------------------------------------------------------------
(* Math.sin and Math.cos of the rotation angles *)

\* A real number is a tuple of limbs <<l1, ..., ln>> to the base LimbBase, standing
\* for l1 + l2 / LimbBase + ... + ln / LimbBase^(n-1).  A normalised number has
\* l2 .. ln in 0 .. LimbBase - 1, so that its sign is the sign of l1 unless l1 = 0.
LimbBase == 10 ^ 4

LimbZero == <<0, 0, 0, 0, 0, 0>>
LimbOne == <<1, 0, 0, 0, 0, 0>>

\* Math.sin(0.005) and Math.cos(0.005): one step of the drag sensitivity
SinStep == <<0, 49, 9997, 9166, 6927, 831>>
CosStep == <<0, 9999, 8750, 26, 416, 4496>>

RECURSIVE Carry(_, _)
\* the carries of limbs i, i - 1, ..., 2 moved up (rounding towards minus infinity)
Carry(t, i) ==
    IF i = 1 THEN t
    ELSE Carry([t EXCEPT ![i] = t[i] % LimbBase,
                         ![i - 1] = t[i - 1] + t[i] \div LimbBase], i - 1)

Normalise(t) == Carry(t, Len(t))

LimbAdd(a, b) == [i \in 1..Len(a) |-> a[i] + b[i]]
LimbSub(a, b) == [i \in 1..Len(a) |-> a[i] - b[i]]

RECURSIVE LimbDot(_, _, _, _)
\* the sum of a[j] * b[k + 1 - j] over the j <= i for which both limbs exist
LimbDot(a, b, k, i) ==
    IF i = 0 THEN 0
    ELSE (IF k + 1 - i <= Len(b) THEN a[i] * b[k + 1 - i] ELSE 0) + LimbDot(a, b, k, i - 1)

\* a * b for |a|, |b| <= 1: the whole product, normalised and cut to the limbs of a
LimbMul(a, b) ==
    LET whole == Normalise([k \in 1..(2 * Len(a) - 1) |-> LimbDot(a, b, k, Min(k, Len(a)))])
    IN  [k \in 1..Len(a) |-> whole[k]]

\* sin and cos of x + y from those of x and y
AddAngles(e, f) ==
    [s |-> Normalise(LimbAdd(LimbMul(e.s, f.c), LimbMul(e.c, f.s))),
     c |-> Normalise(LimbSub(LimbMul(e.c, f.c), LimbMul(e.s, f.s)))]

RECURSIVE TrigUpTo(_)
\* the sines and cosines of 0, 0.005, ..., n * 0.005: entry k + 1 is for k * 0.005
TrigUpTo(n) ==
    IF n = 1 THEN <<[s |-> LimbZero, c |-> LimbOne], [s |-> SinStep, c |-> CosStep]>>
    ELSE LET m == (n + 1) \div 2
             t == TrigUpTo(m)
         IN  t \o [i \in 1..(n - m) |-> AddAngles(t[m + 1], t[i + 1])]

TrigTable == TrigUpTo(2 ^ 11)

\* A sine or cosine is handed on as a sign n and a table entry t, standing for n * t
TableSin(k) ==
    IF k >= 0 THEN [n |-> 1, t |-> TrigTable[k + 1].s] ELSE [n |-> -1, t |-> TrigTable[1 - k].s]
TableCos(k) == [n |-> 1, t |-> TrigTable[Abs(k) + 1].c]
Minus(v) == [n |-> -v.n, t |-> v.t]

\* sine and cosine of an angle [k, q], by the quadrant q of the real angle; the sine
\* and cosine of a pure multiple of PI/2 come out as exactly 0, 1 or -1
Sin(a) ==
    LET r == a.q % 4
    IN  CASE r = 0 -> TableSin(a.k)
          [] r = 1 -> TableCos(a.k)
          [] r = 2 -> Minus(TableSin(a.k))
          [] r = 3 -> Minus(TableCos(a.k))

Cos(a) ==
    LET r == a.q % 4
    IN  CASE r = 0 -> TableCos(a.k)
          [] r = 1 -> Minus(TableSin(a.k))
          [] r = 2 -> Minus(TableCos(a.k))
          [] r = 3 -> TableSin(a.k)

\* the number 1 in the same form
One == [n |-> 1, t |-> LimbOne]

\* c1 v1 + ... + c5 v5 for integers c and sines or cosines v, given as the pairs
\* <<c, v>>: the sign of the sum and its magnitude as a normalised number
Combine(T) ==
    LET col(s, i) == s * (T[1][1] * T[1][2].n * T[1][2].t[i]
                          + T[2][1] * T[2][2].n * T[2][2].t[i]
                          + T[3][1] * T[3][2].n * T[3][2].t[i]
                          + T[4][1] * T[4][2].n * T[4][2].t[i]
                          + T[5][1] * T[5][2].n * T[5][2].t[i])
        cols(s) == <<col(s, 1), col(s, 2), col(s, 3), col(s, 4), col(s, 5), col(s, 6)>>
        up == Normalise(cols(1))
    IN  IF up[1] < 0 THEN [sign |-> -1, mag |-> Normalise(cols(-1))]
        ELSE [sign |-> IF up = LimbZero THEN 0 ELSE 1, mag |-> up]

----------------------------------------------------------------------------
(* three.js: the camera's matrices and Vector3.project *)

\* new THREE.PerspectiveCamera(75, aspect, 0.1, 1000): near and far, in tenths
Near10 == 1
Far10 == 10000

\* camera.rotation.x is exactly +-Math.PI/2 (a clamped pitch)
AtPole(rot) == rot.x.k = 0 /\ rot.x.q % 2 = 1

\* camera.rotation.x, camera.rotation.y is 0 but for what the roundings of the drags
\* have left (nothing, after the constructor and after resetView)
PitchZero(rot) == rot.x = ZeroAngle
YawZero(rot) == rot.y = ZeroAngle

Signs == {-1, 0, 1}

\* camera.matrixWorldInverse comes from Quaternion.setFromEuler, Matrix4.compose and
\* Matrix4.invert.  With a, b the cosine and sine of the pitch and c, d those of the
\* yaw its rows are
\*     x: (c, b d, -a d)     y: (0, a, b)     z: (d, -b c, a c).
\* What the doubles hold in the place of a factor that is 0 in exact arithmetic:
\*   - b for a pitch of 0 and d for a yaw of 0: the residue ep of the pitch and ey
\*     of the yaw, of either sign, exactly 0 when no drag has summed into the angle;
\*   - a at a pole: 1 - 2 sin(PI/4)^2 = 2^-52 in the second entry of y and the third
\*     of z when the yaw is 0, a rounding residue of either sign or 0 in both (and in
\*     the third entry of x, zero together with that of z) for any other yaw;
\*   - the first entry of y, x y - w z of the quaternion: a rounding residue, far
\*     smaller than the other entries of the row, exactly 0 when the pitch or the
\*     yaw is exactly 0 or both are residues.
\* A coordinate made up of such entries only is a residue itself.  The signs of the
\* residues are the record n = [pitch, yaw, x, y, z]: those of ep and ey, and those
\* of the coordinates x, y, z where ep and ey do not decide them.

\* the coordinates of p made up of entries that are 0 in exact arithmetic
Tiny(p, rot) ==
    [x |-> p[1] = 0 /\ (p[2] = 0 \/ PitchZero(rot) \/ YawZero(rot))
                    /\ (p[3] = 0 \/ AtPole(rot) \/ YawZero(rot)),
     y |-> (p[2] = 0 \/ AtPole(rot)) /\ (p[3] = 0 \/ PitchZero(rot)),
     z |-> (p[1] = 0 \/ YawZero(rot)) /\ (p[2] = 0 \/ PitchZero(rot))
                                     /\ (p[3] = 0 \/ AtPole(rot))]

\* the sign of t1 + t2 for two residues of these signs: the larger one decides when
\* they differ
Join(t1, t2, pick) == IF t1 = 0 THEN t2 ELSE IF t2 = 0 \/ t2 = t1 THEN t1 ELSE pick

\* the sign of a sine or cosine
TrigSign(v) == IF v.t = LimbZero THEN 0 ELSE IF v.t[1] < 0 THEN -v.n ELSE v.n

\* z = d p1 - b c p2 + a c p3 where it is a residue
ResidueZ(p, rot, n) ==
    IF YawZero(rot)
    THEN IF PitchZero(rot) THEN Join(n.yaw * Sign(p[1]), -(n.pitch * Sign(p[2])), n.z)
         ELSE IF AtPole(rot) THEN Join(n.yaw * Sign(p[1]), Sign(p[3]), n.z)
         ELSE n.yaw * Sign(p[1])
    ELSE IF PitchZero(rot) THEN -(n.pitch * TrigSign(Cos(rot.y)) * Sign(p[2]))
    ELSE n.z

\* y = r p1 + a p2 + b p3 where it is a residue (r the first entry of the row)
ResidueY(p, rot, n) ==
    IF PitchZero(rot)
    THEN IF p[3] # 0 THEN n.pitch * Sign(p[3])
         ELSE IF YawZero(rot) \/ n.pitch = 0 THEN 0 ELSE n.y
    ELSE IF AtPole(rot) /\ YawZero(rot) /\ p[2] # 0 THEN Sign(p[2])
    ELSE IF YawZero(rot) /\ n.yaw = 0 THEN 0
    ELSE n.y

\* x = c p1 + b d p2 - a d p3 where it is a residue; zsign is the sign of z.  For a
\* yaw of ey the row is ey times (0, b, -a), so x is -ey z.
ResidueX(p, rot, n, zsign) ==
    IF YawZero(rot) THEN -(n.yaw * zsign)
    ELSE IF PitchZero(rot) THEN n.pitch * TrigSign(Sin(rot.y)) * Sign(p[2])
    ELSE n.x

\* the signs of the coordinates of p that are residues, as far as n decides them (a z
\* that is no residue has a sign n does not change: 1 stands for it)
ResidueSigns(p, rot, n) ==
    LET t == Tiny(p, rot)
        z == IF t.z THEN ResidueZ(p, rot, n) ELSE 1
    IN  [x |-> IF t.x THEN ResidueX(p, rot, n, z) ELSE 0,
         y |-> IF t.y THEN ResidueY(p, rot, n) ELSE 0,
         z |-> IF t.z THEN z ELSE 0]

NoResidue == [pitch |-> 0, yaw |-> 0, x |-> 0, y |-> 0, z |-> 0]

\* the signs the residues can have for an orientation rot, as far as they matter to
\* the point p: a sign that changes none of p's coordinates is left at 0
Residues(p, rot) ==
    LET t == Tiny(p, rot)
        matters(n, f) ==
            n[f] = 0 \/ ResidueSigns(p, rot, [n EXCEPT ![f] = 0]) # ResidueSigns(p, rot, n)
    IN  IF p = <<0, 0, 0>> \/ ~(t.x \/ t.y \/ t.z) THEN {NoResidue}
        ELSE {n \in [pitch : IF PitchZero(rot) THEN Signs ELSE {0},
                     yaw : IF YawZero(rot) THEN Signs ELSE {0},
                     x : IF t.x /\ AtPole(rot) /\ ~YawZero(rot) THEN Signs ELSE {0},
                     y : IF t.y THEN Signs ELSE {0},
                     z : IF t.z THEN Signs ELSE {0}] :
                /\ \A f \in {"pitch", "yaw", "x", "y", "z"} : matters(n, f)
                /\ AtPole(rot) /\ ~YawZero(rot) /\ t.x => ((n.x = 0) <=> (n.z = 0))}

\* vector.applyMatrix4(camera.matrixWorldInverse): the camera sits at the origin with
\* Euler rotation (rot.x, rot.y, 0) in XYZ order, so the inverse of its world matrix
\* is the transpose of Rx(rot.x) * Ry(rot.y):
\*     x = c p1 + b d p2 - a d p3,   y = a p2 + b p3,   z = d p1 - b c p2 + a c p3,
\* and each product of two of a, b, c, d is half a sum of sines or cosines of P + Y
\* and P - Y.  Each coordinate is returned as [sign, mag, tiny, order]: its sign and
\* twice its magnitude in exact arithmetic or, where that is zero (tiny), the sign
\* of the residue the doubles hold.  A residue is of order 1 (the residue of an angle
\* or a rounding of the matrix, times a coordinate of p) or of order 2 (smaller by a
\* further such factor).  For a pitch of ep and a yaw other than 0, x and z are ep
\* times d p2 and -c p2: these two carry the magnitudes 2 |d p2| and 2 |c p2|.
ViewCoords(p, rot, n) ==
    LET plus == Angle(rot.x.k + rot.y.k, rot.x.q + rot.y.q)
        minus == Angle(rot.x.k - rot.y.k, rot.x.q - rot.y.q)
        none == <<0, One>>
        t == Tiny(p, rot)
        exact(main) == [sign |-> main.sign, mag |-> main.mag, tiny |-> FALSE, order |-> 0]
        residue(sign, order, factor) ==
            [sign |-> sign, mag |-> factor, tiny |-> TRUE, order |-> order]
        \* 2 |p2| times the sine or cosine of the yaw, where x and z are both the
        \* pitch's residue times such a factor
        factor(v) ==
            IF PitchZero(rot) /\ ~YawZero(rot)
            THEN Combine(<<<<2 * p[2], v>>, none, none, none, none>>).mag
            ELSE LimbZero
        mainZ == Combine(<<<<2 * p[1], Sin(rot.y)>>,
                           <<-p[2], Sin(plus)>>, <<-p[2], Sin(minus)>>,
                           <<p[3], Cos(plus)>>, <<p[3], Cos(minus)>>>>)
    IN  [x |-> IF t.x
               THEN residue(ResidueX(p, rot, n,
                                     IF t.z THEN ResidueZ(p, rot, n) ELSE mainZ.sign),
                            IF YawZero(rot) /\ t.z THEN 2 ELSE 1,
                            factor(Sin(rot.y)))
               ELSE exact(Combine(<<<<2 * p[1], Cos(rot.y)>>,
                                    <<p[2], Cos(minus)>>, <<-p[2], Cos(plus)>>,
                                    <<-p[3], Sin(plus)>>, <<p[3], Sin(minus)>>>>)),
         y |-> IF t.y
               THEN residue(ResidueY(p, rot, n),
                            IF (PitchZero(rot) /\ p[3] # 0) \/ (AtPole(rot) /\ p[2] # 0)
                               \/ ~(PitchZero(rot) \/ YawZero(rot))
                            THEN 1 ELSE 2,
                            LimbZero)
               ELSE exact(Combine(<<<<2 * p[2], Cos(rot.x)>>, <<2 * p[3], Sin(rot.x)>>,
                                    none, none, none>>)),
         z |-> IF t.z
               THEN residue(ResidueZ(p, rot, n), 1, factor(Cos(rot.y)))
               ELSE exact(mainZ)]

\* a view coordinate in units of 1 / TrigOne, rounded, except that a coordinate which
\* is not zero is never rounded to zero
CoordUnits(c) ==
    IF c.tiny THEN c.sign
    ELSE c.sign * Max(1, (c.mag[1] * LimbBase + c.mag[2] + 1) \div 2)

\* 1 / tan(fov / 2), times 1000: the y scale of camera.projectionMatrix
CotHalfFov(f) ==
    LET h == (f * HalfPi) \div (180 * StepsPerDegree)
    IN  DivRound(CosFP(h) * 1000, SinFP(h))

\* the z row of projectionMatrix applied to a view-space z and divided by w = -z:
\* ndcZ as a fraction num / den, with
\*   num = -(far + near) z - 2 far near,  den = (far - near) * (-z).
\* z comes in units of 1 / TrigOne and is cut to hundredths when it is 10 or more,
\* which keeps the products within the integers.
NdcZ(z) ==
    IF Abs(z) < 10 * TrigOne
    THEN [num |-> -((Far10 + Near10) * z + 2 * Far10 * Near10 * (TrigOne \div 10)),
          den |-> (Far10 - Near10) * (-z)]
    ELSE LET zc == DivRound(z, TrigOne \div 100)
         IN  [num |-> -((Far10 + Near10) * zc + 2 * Far10 * Near10 * 10),
              den |-> (Far10 - Near10) * (-zc)]

\* the comparison clipZ < clipW, without the division by w
NdcZLessThanOneUndivided(r) == r.num < r.den

\* vector.z < 1 for ndcZ = num / den in IEEE arithmetic: a zero w divides the
\* negative clip z into -Infinity
NdcZLessThanOne(r) ==
    IF r.den > 0 THEN r.num < r.den
    ELSE IF r.den < 0 THEN r.num > r.den
    ELSE r.num < 0

\* the largest |ndc| * 1000 carried as a finite number
NdcLimit == 10 ^ 5

\* scale * v / w for v >= 0, w > 0, by quotient and remainder so that no product
\* leaves the integers; -1 when the result is beyond NdcLimit
ScaledRatio(scale, v, w) ==
    LET q == v \div w
        r == v % w
        c == w \div (10 ^ 5) + 1
    IN  IF q > NdcLimit THEN -1
        ELSE LET n == scale * q + (scale * (r \div c)) \div (w \div c)
             IN  IF n > NdcLimit THEN -1 ELSE n

\* the first limb of a normalised magnitude that is not zero (Len + 1 for zero)
RECURSIVE Lead(_, _)
Lead(a, i) == IF i > Len(a) \/ a[i] # 0 THEN i ELSE Lead(a, i + 1)

\* nine digits of a magnitude as one integer, starting at limb i
IntAt(a, i) ==
    LET limb(j) == IF j <= Len(a) THEN a[j] ELSE 0
    IN  limb(i) * (10 * LimbBase) + limb(i + 1) * 10 + limb(i + 2) \div (LimbBase \div 10)

\* scale * a / b, times 1000, for magnitudes a and b # 0; -1 when beyond NdcLimit
MagRatio(scale, a, b) ==
    LET i == Min(Lead(a, 1), Lead(b, 1))
    IN  IF IntAt(b, i) = 0 THEN -1 ELSE ScaledRatio(scale, IntAt(a, i), IntAt(b, i))

\* a clip coordinate scale * v divided by w = -z, times 1000 (scale > 0).  A z of
\* exactly zero divides as IEEE's zero does; a z that is a residue makes an infinity
\* of a coordinate that is none, 0 of a residue of higher order, the quotient of
\* the factors of a residue of the same angle, and an undetermined number of any
\* other residue.
NdcOf(scale, v, z) ==
    IF z.sign = 0 THEN (IF v.sign = 0 THEN NaN ELSE Inf(v.sign))
    ELSE IF v.sign = 0 \/ (v.tiny /\ ~z.tiny) THEN Num(0)
    ELSE IF z.tiny /\ ~v.tiny THEN Inf(-(v.sign * z.sign))
    ELSE IF z.tiny /\ v.order > z.order THEN Num(0)
    ELSE IF z.tiny /\ (v.mag = LimbZero \/ z.mag = LimbZero) THEN Unknown
    ELSE LET n == MagRatio(scale, v.mag, z.mag)
         IN  IF n < 0 THEN Inf(-(v.sign * z.sign)) ELSE Num(-(v.sign * z.sign * n))

\* (s * ndc + 1) * size / 2, in whole pixels
ToPixels(ndc, s, size) ==
    IF ndc[1] = "num" THEN Num(((s * ndc[2] + 1000) * size) \div 2000)
    ELSE IF ndc[1] = "inf" THEN Inf(s * ndc[2])
    ELSE ndc

\* the x scale of projectionMatrix is the y scale divided by the aspect ratio
ScaleByAspect(ndc, aspect) ==
    IF ndc[1] = "num" THEN Num(DivRound(ndc[2] * aspect.h, aspect.w)) ELSE ndc

\* projectToScreen with the comparison turned round: vector.z > 1
projectToScreenFlipped(worldPosition, cam, win, n) ==
    LET v == ViewCoords(worldPosition, cam.matrixWorld, n)
        cot == CotHalfFov(cam.projection.fov)
        ndcX == ScaleByAspect(NdcOf(cot, v.x, v.z), cam.projection.aspect)
        ndcY == NdcOf(cot, v.y, v.z)
    IN  [x |-> ToPixels(ndcX, 1, win.w),
         y |-> ToPixels(ndcY, -1, win.h),
         visible |-> ~NdcZLessThanOne(NdcZ(CoordUnits(v.z)))]

\* projectToScreen(worldPosition, camera): cam = [matrixWorld, projection],
\* win = [w, h] the window's inner size, n the signs of the residues
projectToScreen(worldPosition, cam, win, n) ==
    LET v == ViewCoords(worldPosition, cam.matrixWorld, n)
        cot == CotHalfFov(cam.projection.fov)
        ndcX == ScaleByAspect(NdcOf(cot, v.x, v.z), cam.projection.aspect)
        ndcY == NdcOf(cot, v.y, v.z)
    IN  [x |-> ToPixels(ndcX, 1, win.w),
         y |-> ToPixels(ndcY, -1, win.h),
         visible |-> NdcZLessThanOne(NdcZ(CoordUnits(v.z)))]

----------------------------------------------------------------------------
(* getScreenPosition of the spherical variant *)

\* JavaScript's %: the remainder takes the sign of the dividend
JsRem(n, m) == Sign(n) * (Abs(n) % m)

\* getScreenPosition without the wrap: x = (longitude + 180) / 360
getScreenPositionNoWrap(longitude, latitude) ==
    [left |-> 5 * (longitude + 180), top |-> 10 * (90 - latitude)]

\* getScreenPosition(longitude, latitude): left and top in eighteenths of a percent
\* (x * 100 = r * 100 / 360 = 5 r / 18,  y * 100 = (90 - lat) * 100 / 180)
getScreenPosition(longitude, latitude) ==
    [left |-> 5 * JsRem(longitude + 180, 360),
     top |-> 10 * (90 - latitude)]

----------------------------------------------------------------------------
(* State helpers *)

Point(x, y) == [x |-> x, y |-> y]
Size(w, h) == [w |-> w, h |-> h]

\* hotspotPositions[id] before any projection: the key is absent
Undefined == [undefined |-> TRUE]

\* the five listeners the effect registers
SetupListeners ==
    {<<"surface", "mousedown">>, <<"window", "mousemove">>, <<"window", "mouseup">>,
     <<"surface", "wheel">>, <<"window", "resize">>}

\* cameraRef.current is set by the effect and never cleared
cameraRefSet == phase # "created"

\* requestAnimationFrame returns an id no live request or reference holds; the
\* browser's ids only grow, the model reuses one as soon as nothing names it
FreshRafId == CHOOSE i \in 1..3 : i \notin (rafPending \cup {animationRef})

Camera == [matrixWorld |-> matrixWorld, projection |-> projection]

\* the signs of the residues of every hotspot, for a camera matrix computed from
\* rot.  Where z is no residue, an x or y that is one projects to the centre
\* whatever its sign (NdcOf), so its sign is left at 0.
ResidueChoices(rot) ==
    LET r == [id \in HotspotIds |->
                 IF Tiny(hotspotsPerspective[id], rot).z
                 THEN Residues(hotspotsPerspective[id], rot)
                 ELSE {NoResidue}]
    IN  {ns \in [HotspotIds -> UNION {r[id] : id \in HotspotIds}] :
            \A id \in HotspotIds : ns[id] \in r[id]}

\* the record kept in lastOp: the handler's name, whether it changed the camera's
\* rotation or field of view, for a pointer event its clientX and clientY (0, 0
\* for every other handler), for a wheel event its deltaY (0 for every other
\* handler), for a marker click the marker and the selection it found, and, for a
\* zoomIn and for a zoomOut that directly follows one, the field of view before the
\* zoomIn
Op(name) ==
    [op |-> name,
     changed |-> (rotation' # rotation \/ fov' # fov),
     target |-> "null",
     pointer |-> [x |-> 0, y |-> 0],
     deltaY |-> 0,
     selectedBefore |-> IF name = "clickMarker" THEN selectedHotspot ELSE "null",
     zoomedInFrom |-> IF name = "zoomIn" THEN fov
                      ELSE IF name = "zoomOut" /\ lastOp.op = "zoomIn" THEN lastOp.zoomedInFrom
                      ELSE 0]

\* updateHotspotPositions: every hotspot projected with the camera's matrices as
\* they are now
updateHotspotPositions(ns) ==
    IF ~cameraRefSet THEN hotspotPositions
    ELSE [id \in HotspotIds |->
             projectToScreen(hotspotsPerspective[id], Camera, viewport, ns[id])]

\* an anchor that follows the camera: the longitude shifted by the yaw in degrees
ScreenAnchorTracksCamera(id, camRot) ==
    getScreenPosition(hotspotsSpherical[id][1] - (camRot.y.k * 180) \div 628,
                      hotspotsSpherical[id][2])

\* const screenPos = getScreenPosition(hotspot.position[0], hotspot.position[1]) of
\* the spherical variant's render, which has the state cameraRotation (camRot) in
\* scope and does not read it
ScreenAnchor(id, camRot) ==
    getScreenPosition(hotspotsSpherical[id][1], hotspotsSpherical[id][2])

\* what the DOM holds for a hotspot without a marker
NoMarker == {}

\* {hotspots.map((hotspot) => ...)} of a render with the state positions and camRot:
\* for every hotspot the set of its marker's style, empty where the render returns
\* no marker.  The perspective variant returns null for
\* a hotspot without an anchor or with one that is not visible, and places the
\* others at left: position.x px, top: position.y px; the spherical variant places
\* every marker at screenPos.
RenderMarkers(positions, camRot) ==
    [id \in HotspotIds |->
        IF variant = "perspective"
        THEN IF positions[id] = Undefined \/ ~positions[id].visible THEN NoMarker
             ELSE {[left |-> positions[id].x, top |-> positions[id].y]}
        ELSE {ScreenAnchor(id, camRot)}]

\* React renders the component again after a handler has set state; a component
\* that is unmounted is not rendered
Rerender ==
    markers' = IF phase' = "unmounted" THEN markers
               ELSE RenderMarkers(hotspotPositions', cameraRotation')

\* the markers the render has put in the DOM
MarkerRendered(id) == markers[id] # NoMarker

----------------------------------------------------------------------------
(* Initial state: the component function has rendered once (useState and useRef
   initial values, the container div attached to mountRef); the effect has not
   run.  The camera fields hold what its constructor will give them. *)

InitialViewport == Size(1024, 768)

InitProgram ==
    /\ variant \in Variants
    /\ phase = "created"
    /\ mountRef = "div"
    /\ rotation = [x |-> ZeroAngle, y |-> ZeroAngle]
    /\ fov = DefaultFov
    /\ projection = [fov |-> DefaultFov, aspect |-> InitialViewport]
    /\ matrixWorld = [x |-> ZeroAngle, y |-> ZeroAngle]
    /\ isDragging = FALSE
    /\ previousMouse = Point(0, 0)
    /\ cameraRotation = Point(ZeroAngle, ZeroAngle)
    /\ selectedHotspot = "null"
    /\ isLoading = TRUE
    /\ hotspotPositions = [id \in HotspotIds |-> Undefined]
    /\ markers = RenderMarkers(hotspotPositions, cameraRotation)
    /\ textureLoad = "idle"
    /\ sceneChildren = {}
    /\ listeners = {}
    /\ rafPending = {}
    /\ animationRef = 0
    /\ domAttached = FALSE
    /\ disposed = FALSE
    /\ viewport = InitialViewport
    /\ rendererSize = Size(0, 0)
    /\ lastOp = [op |-> "render", changed |-> FALSE, target |-> "null",
                 pointer |-> [x |-> 0, y |-> 0], deltaY |-> 0,
                 selectedBefore |-> "null", zoomedInFrom |-> 0]

\* no function is under separate evaluation
NoCall == [op |-> "none"]

Init ==
    /\ InitProgram
    /\ fnIn = NoCall
    /\ fnOut = NoCall

----------------------------------------------------------------------------
(* Lifecycle *)

\* useEffect(() => { ... }, []): scene, camera and renderer, the texture request,
\* the listeners, and the first synchronous call of animate
Mount ==
    /\ phase = "created"
    /\ mountRef # "null"
    /\ phase' = "mounted"
    /\ rotation' = [x |-> ZeroAngle, y |-> ZeroAngle]
    /\ fov' = DefaultFov
    /\ projection' = [fov |-> DefaultFov, aspect |-> viewport]
    /\ rendererSize' = viewport
    /\ domAttached' = TRUE
    /\ textureLoad' = "pending"
    /\ listeners' = listeners \cup SetupListeners
    \* animate(): request the next frame, project, render
    /\ animationRef' = FreshRafId
    /\ rafPending' = rafPending \cup {FreshRafId}
    \* the camera's matrices are those of its constructor, with no residue
    /\ hotspotPositions' =
          IF variant = "perspective"
          THEN [id \in HotspotIds |->
                   projectToScreen(hotspotsPerspective[id],
                                   [matrixWorld |-> matrixWorld, projection |-> projection'],
                                   viewport, NoResidue)]
          ELSE hotspotPositions
    /\ matrixWorld' = rotation'
    /\ UNCHANGED <<variant, mountRef, dragVars, cameraRotation, uiVars, sceneChildren,
                   disposed, viewport, fnVars>>
    /\ Rerender
    /\ lastOp' = Op("mount")

\* const animate = () => { ... }: run by the browser for a pending request
animate ==
    /\ \E id \in rafPending :
          /\ animationRef' = FreshRafId
          /\ rafPending' = (rafPending \ {id}) \cup {FreshRafId}
    \* setHotspotPositions(positions); React drops the update of a component that
    \* is unmounted
    /\ \E ns \in ResidueChoices(matrixWorld) :
          hotspotPositions' =
             IF variant = "perspective" /\ phase # "unmounted"
             THEN updateHotspotPositions(ns)
             ELSE hotspotPositions
    \* renderer.render(scene, camera) updates the camera's world matrix
    /\ matrixWorld' = rotation
    /\ UNCHANGED <<variant, phase, mountRef, cameraVars, dragVars, cameraRotation, uiVars,
                   loadVars, listeners, domAttached, disposed, sizeVars, fnVars>>
    /\ Rerender
    /\ lastOp' = Op("animate")

\* the effect's cleanup, run when React unmounts the component.  React 16 runs it
\* while the container ref is still attached; React 17 and later detach the ref
\* first, so mountRef.current is then null.
Unmount ==
    /\ phase = "mounted"
    /\ phase' = "unmounted"
    /\ \E ref \in {"div", "null"} :
          /\ mountRef' = ref
          /\ domAttached' = IF ref # "null" THEN FALSE ELSE domAttached
    /\ rafPending' = IF animationRef # 0 THEN rafPending \ {animationRef} ELSE rafPending
    /\ listeners' = listeners \ SetupListeners
    /\ disposed' = TRUE
    \* React takes what the component rendered out of the DOM
    /\ markers' = [id \in HotspotIds |-> NoMarker]
    /\ UNCHANGED <<variant, cameraVars, matrixWorld, dragVars, cameraRotation, uiVars,
                   hotspotPositions, loadVars, animationRef, sizeVars, fnVars>>
    /\ lastOp' = Op("unmount")

----------------------------------------------------------------------------
(* The texture request's callbacks *)

\* (texture) => { ...; scene.add(sphere); sphereRef.current = sphere; setIsLoading(false) }
\* React drops the state update of a component that is unmounted.
LoadSuccess ==
    /\ textureLoad = "pending"
    /\ textureLoad' = "loaded"
    /\ sceneChildren' = sceneChildren \cup {"sphere"}
    /\ isLoading' = IF phase = "unmounted" THEN isLoading ELSE FALSE
    /\ UNCHANGED <<variant, cameraVars, matrixWorld, dragVars, cameraRotation,
                   selectedHotspot, hotspotPositions, lifeVars, sizeVars, fnVars>>
    /\ Rerender
    /\ lastOp' = Op("loadSuccess")

\* (error) => { console.error(...); setIsLoading(false) }
LoadError ==
    /\ textureLoad = "pending"
    /\ textureLoad' = "failed"
    /\ isLoading' = IF phase = "unmounted" THEN isLoading ELSE FALSE
    /\ UNCHANGED <<variant, cameraVars, matrixWorld, dragVars, cameraRotation,
                   selectedHotspot, hotspotPositions, sceneChildren, lifeVars, sizeVars,
                   fnVars>>
    /\ Rerender
    /\ lastOp' = Op("loadError")

----------------------------------------------------------------------------
(* Pointer, wheel and resize handlers *)

handleMouseDown(x, y) ==
    /\ <<"surface", "mousedown">> \in listeners
    /\ isDragging' = TRUE
    /\ previousMouse' = Point(x, y)
    /\ UNCHANGED <<variant, cameraVars, matrixWorld, cameraRotation, uiVars,
                   hotspotPositions, markers, loadVars, lifeVars, sizeVars, fnVars>>
    /\ lastOp' = [Op("handleMouseDown") EXCEPT !.pointer = Point(x, y)]

\* the drag with the yaw's sign turned round: rotation.y += deltaX * 0.005
DraggedRotationAdds(x, y) ==
    LET deltaX == x - previousMouse.x
        deltaY == y - previousMouse.y
    IN  [x |-> ClampPitch(AngleMinus(rotation.x, deltaY)),
         y |-> AngleMinus(rotation.y, -deltaX)]

\* camera.rotation after a move to (x, y) while dragging
DraggedRotation(x, y) ==
    LET deltaX == x - previousMouse.x
        deltaY == y - previousMouse.y
    IN  [x |-> ClampPitch(AngleMinus(rotation.x, deltaY)),
         y |-> AngleMinus(rotation.y, deltaX)]

\* |yaw| within the model's bound
YawWithinBound(rot) == Abs(rot.y.k) <= MaxYawTurns * 314

handleMouseMove(x, y) ==
    /\ <<"window", "mousemove">> \in listeners
    /\ IF ~isDragging
       THEN UNCHANGED <<rotation, previousMouse, cameraRotation>>
       ELSE /\ YawWithinBound(DraggedRotation(x, y))
            /\ rotation' = DraggedRotation(x, y)
            /\ cameraRotation' =
                  IF variant = "spherical"
                  THEN Point(rotation'.x, rotation'.y)
                  ELSE cameraRotation
            /\ previousMouse' = Point(x, y)
    /\ UNCHANGED <<variant, fov, projection, matrixWorld, isDragging, uiVars,
                   hotspotPositions, loadVars, lifeVars, sizeVars, fnVars>>
    \* setCameraRotation of the spherical variant has React render again
    /\ IF variant = "spherical" /\ isDragging THEN Rerender ELSE UNCHANGED markers
    /\ lastOp' = [Op("handleMouseMove") EXCEPT !.pointer = Point(x, y)]

handleMouseUp ==
    /\ <<"window", "mouseup">> \in listeners
    /\ isDragging' = FALSE
    /\ UNCHANGED <<variant, cameraVars, matrixWorld, previousMouse, cameraRotation, uiVars,
                   hotspotPositions, markers, loadVars, lifeVars, sizeVars, fnVars>>
    /\ lastOp' = Op("handleMouseUp")

handleWheel(deltaY) ==
    /\ <<"surface", "wheel">> \in listeners
    /\ fov' = WheelFov(fov, deltaY)
    /\ projection' = [projection EXCEPT !.fov = fov']
    /\ UNCHANGED <<variant, rotation, matrixWorld, dragVars, cameraRotation, uiVars,
                   hotspotPositions, markers, loadVars, lifeVars, sizeVars, fnVars>>
    /\ lastOp' = [Op("handleWheel") EXCEPT !.deltaY = deltaY]

\* the window takes the size `size` and the resize event is delivered
handleResize(size) ==
    /\ <<"window", "resize">> \in listeners
    /\ viewport' = size
    /\ projection' = [fov |-> fov, aspect |-> size]
    /\ rendererSize' = size
    /\ UNCHANGED <<variant, rotation, fov, matrixWorld, dragVars, cameraRotation, uiVars,
                   hotspotPositions, markers, loadVars, lifeVars, fnVars>>
    /\ lastOp' = Op("handleResize")

----------------------------------------------------------------------------
(* The buttons, the markers and the panel *)

\* the fields resetView, zoomIn and zoomOut leave alone
buttonFrame ==
    <<variant, matrixWorld, dragVars, cameraRotation, uiVars, hotspotPositions, markers, loadVars,
      lifeVars, sizeVars, fnVars>>

\* resetView without the line cameraRef.current.fov = 75
resetViewKeepsFov ==
    /\ phase = "mounted"
    /\ IF cameraRefSet
       THEN /\ rotation' = [x |-> ZeroAngle, y |-> ZeroAngle]
            /\ UNCHANGED <<fov, projection>>
       ELSE UNCHANGED cameraVars
    /\ UNCHANGED buttonFrame
    /\ lastOp' = Op("resetView")

resetView ==
    /\ phase = "mounted"
    /\ IF cameraRefSet
       THEN /\ rotation' = [x |-> ZeroAngle, y |-> ZeroAngle]
            /\ fov' = DefaultFov
            /\ projection' = [projection EXCEPT !.fov = fov']
       ELSE UNCHANGED cameraVars
    /\ UNCHANGED buttonFrame
    /\ lastOp' = Op("resetView")

zoomIn ==
    /\ phase = "mounted"
    /\ IF cameraRefSet
       THEN /\ fov' = ZoomInFov(fov)
            /\ projection' = [projection EXCEPT !.fov = fov']
            /\ UNCHANGED rotation
       ELSE UNCHANGED cameraVars
    /\ UNCHANGED buttonFrame
    /\ lastOp' = Op("zoomIn")

\* zoomOut without its updateProjectionMatrix()
zoomOutStaleProjection ==
    /\ phase = "mounted"
    /\ IF cameraRefSet
       THEN /\ fov' = ZoomOutFov(fov)
            /\ UNCHANGED <<rotation, projection>>
       ELSE UNCHANGED cameraVars
    /\ UNCHANGED buttonFrame
    /\ lastOp' = Op("zoomOut")

zoomOut ==
    /\ phase = "mounted"
    /\ IF cameraRefSet
       THEN /\ fov' = ZoomOutFov(fov)
            /\ projection' = [projection EXCEPT !.fov = fov']
            /\ UNCHANGED rotation
       ELSE UNCHANGED cameraVars
    /\ UNCHANGED buttonFrame
    /\ lastOp' = Op("zoomOut")

\* a marker click that toggles: clicking the selected hotspot's marker clears it
ClickMarkerToggles(id) ==
    /\ phase = "mounted"
    /\ MarkerRendered(id)
    /\ selectedHotspot' = IF selectedHotspot = "null" THEN id ELSE "null"
    /\ UNCHANGED <<variant, cameraVars, matrixWorld, dragVars, cameraRotation, isLoading,
                   hotspotPositions, loadVars, lifeVars, sizeVars, fnVars>>
    /\ Rerender
    /\ lastOp' = [Op("clickMarker") EXCEPT !.target = id]

\* onClick={() => setSelectedHotspot(hotspot)} of a rendered marker
ClickMarker(id) ==
    /\ phase = "mounted"
    /\ MarkerRendered(id)
    /\ selectedHotspot' = id
    /\ UNCHANGED <<variant, cameraVars, matrixWorld, dragVars, cameraRotation, isLoading,
                   hotspotPositions, loadVars, lifeVars, sizeVars, fnVars>>
    /\ Rerender
    /\ lastOp' = [Op("clickMarker") EXCEPT !.target = id]

\* onClick={() => setSelectedHotspot(null)} of the panel, rendered while a hotspot
\* is selected
ClosePanel ==
    /\ phase = "mounted"
    /\ selectedHotspot # "null"
    /\ selectedHotspot' = "null"
    /\ UNCHANGED <<variant, cameraVars, matrixWorld, dragVars, cameraRotation, isLoading,
                   hotspotPositions, loadVars, lifeVars, sizeVars, fnVars>>
    /\ Rerender
    /\ lastOp' = Op("closePanel")

----------------------------------------------------------------------------
(* Specification of the camera controls: the effect runs, the texture request
   completes at any moment, and the pointer, the wheel and the three buttons act
   on the camera in any order.  Frames and unmounting are left to SpecLife, the
   markers and the panel to SpecOverlay. *)

\* pointer positions: moves between them give deltas of 1 and 2 radians in pitch
\* (within and beyond the clamp) and of a quarter turn in yaw, in both signs
Pointers == {Point(0, 0), Point(314, 200), Point(0, 400)}

\* wheel deltaY: one notch either way, and a fling beyond the whole range
WheelDeltas == {-3000, -100, 100, 3000}

Next ==
    \/ Mount
    \/ \E p \in Pointers : handleMouseDown(p.x, p.y)
    \/ \E p \in Pointers : handleMouseMove(p.x, p.y)
    \/ handleMouseUp
    \/ \E d \in WheelDeltas : handleWheel(d)
    \/ resetView
    \/ zoomIn
    \/ zoomOut
    \/ LoadSuccess
    \/ LoadError

Spec == Init /\ [][Next]_vars

----------------------------------------------------------------------------
(* Specification of the overlay: the markers and the panel of the mounted
   component, with the camera handlers acting in between.  No frame runs, so in
   the perspective variant the markers are those of the first frame. *)

OverlayPointers == {Point(0, 0), Point(314, 400)}
OverlayWheelDeltas == {-3000, 3000}

NextOverlay ==
    \/ Mount
    \/ \E id \in HotspotIds : ClickMarker(id)
    \/ ClosePanel
    \/ \E p \in OverlayPointers : handleMouseDown(p.x, p.y)
    \/ \E p \in OverlayPointers : handleMouseMove(p.x, p.y)
    \/ handleMouseUp
    \/ \E d \in OverlayWheelDeltas : handleWheel(d)
    \/ resetView
    \/ zoomIn
    \/ zoomOut

SpecOverlay == Init /\ [][NextOverlay]_vars

----------------------------------------------------------------------------
(* The component's life: mount, frames, the texture request's callbacks, a drag,
   window resizes and the unmount, in every order the guards allow. *)

LifePointers == {Point(0, 0), Point(314, 0)}
LifeSizes == {Size(1024, 768), Size(800, 600)}

NextLife ==
    \/ Mount
    \/ animate
    \/ Unmount
    \/ LoadSuccess
    \/ LoadError
    \/ \E p \in LifePointers : handleMouseDown(p.x, p.y)
    \/ \E p \in LifePointers : handleMouseMove(p.x, p.y)
    \/ handleMouseUp
    \/ \E size \in LifeSizes : handleResize(size)

SpecLife == Init /\ [][NextLife]_vars

----------------------------------------------------------------------------
(* The drag controller next to every other handler that touches the camera:
   pointer, wheel, buttons and resize, in any order after the mount. *)

DragPointers == {Point(0, 0), Point(314, 400)}
DragWheelDeltas == {-3000, 3000}
DragSizes == {Size(1024, 768), Size(800, 600)}

NextDrag ==
    \/ Mount
    \/ \E p \in DragPointers : handleMouseDown(p.x, p.y)
    \/ \E p \in DragPointers : handleMouseMove(p.x, p.y)
    \/ handleMouseUp
    \/ \E d \in DragWheelDeltas : handleWheel(d)
    \/ \E size \in DragSizes : handleResize(size)
    \/ resetView
    \/ zoomIn
    \/ zoomOut

SpecDrag == Init /\ [][NextDrag]_vars

----------------------------------------------------------------------------
(* The field of view across frames: wheel and buttons while idle and while
   dragging, with animation frames in between. *)

ZoomPointers == {Point(0, 0)}
ZoomWheelDeltas == {-3000, -100, 3000}

NextZoom ==
    \/ Mount
    \/ animate
    \/ \E p \in ZoomPointers : handleMouseDown(p.x, p.y)
    \/ handleMouseUp
    \/ \E d \in ZoomWheelDeltas : handleWheel(d)
    \/ resetView
    \/ zoomIn
    \/ zoomOut

SpecZoom == Init /\ [][NextZoom]_vars

----------------------------------------------------------------------------
(* Markers and their anchors across frames: drag, wheel, resize, reset and frames
   in both variants.  The zoom buttons are pressed in the spherical variant, where
   no frame stores anchors; in the perspective variant the field of view varies by
   the wheel. *)

AnchorPointers == {Point(0, 0), Point(314, 0)}
AnchorWheelDeltas == {3000}
AnchorSizes == {Size(1024, 768), Size(800, 600)}

NextAnchors ==
    \/ Mount
    \/ animate
    \/ \E p \in AnchorPointers : handleMouseDown(p.x, p.y)
    \/ \E p \in AnchorPointers : handleMouseMove(p.x, p.y)
    \/ handleMouseUp
    \/ \E d \in AnchorWheelDeltas : handleWheel(d)
    \/ \E size \in AnchorSizes : handleResize(size)
    \/ resetView
    \/ variant = "spherical" /\ zoomIn
    \/ variant = "spherical" /\ zoomOut

SpecAnchors == Init /\ [][NextAnchors]_vars

----------------------------------------------------------------------------
(* The two mapping functions on their own: the inputs are drawn in the initial
   state and one step applies the function. *)

\* longitudes run over -MaxLongitude .. MaxLongitude, whole degrees
MaxLongitude == 180
\* latitudes run over multiples of LatitudeStep up to MaxLatitude in size
MaxLatitude == 90
LatitudeStep == 45
\* the coordinates of the projected points are 0, +-1 and +-MaxCoord, besides the
\* configured hotspots
MaxCoord == 300

Longitudes == (-MaxLongitude) .. MaxLongitude
Latitudes == {l \in (-MaxLatitude) .. MaxLatitude : l % LatitudeStep = 0}

Coords == {-MaxCoord, -1, 0, 1, MaxCoord}
WorldPoints == (Coords \X Coords \X Coords) \cup {hotspotsPerspective[id] : id \in HotspotIds}
\* the orientations include the two poles, a step away from a pole, and the pair
\* (-206, 160) of drag steps at which the first hotspot lies 0.00006 behind the camera
FnPitches ==
    {Angle(0, -1), Angle(-206, 0), Angle(-157, 0), ZeroAngle, Angle(157, 0), Angle(-1, 1),
     Angle(0, 1)}
FnYaws == {Angle(k, 0) : k \in {-314 * MaxYawTurns, -157, 0, 100, 160, 314 * MaxYawTurns}}
FnFovs == {MinFov, DefaultFov, MaxFov}

SphericalCalls ==
    [op : {"getScreenPosition"}, longitude : Longitudes, latitude : Latitudes]

ProjectCalls ==
    UNION {[op : {"projectToScreen"}, point : {p}, rotation : {rot},
            residue : Residues(p, rot), fov : FnFovs] :
              p \in WorldPoints, rot \in [x : FnPitches, y : FnYaws]}

InitFn ==
    /\ InitProgram
    /\ fnIn \in SphericalCalls \cup ProjectCalls
    /\ variant = (IF fnIn.op = "projectToScreen" THEN "perspective" ELSE "spherical")
    /\ fnOut = NoCall

fnFrame == <<variant, cameraVars, matrixWorld, dragVars, cameraRotation, uiVars,
             hotspotPositions, markers, loadVars, lifeVars, sizeVars, lastOp, fnIn>>

ApplyGetScreenPosition ==
    /\ fnIn.op = "getScreenPosition"
    /\ fnOut = NoCall
    /\ fnOut' = [op |-> fnIn.op, result |-> getScreenPosition(fnIn.longitude, fnIn.latitude)]
    /\ UNCHANGED fnFrame

ApplyProjectToScreen ==
    /\ fnIn.op = "projectToScreen"
    /\ fnOut = NoCall
    /\ fnOut' = [op |-> fnIn.op,
                 result |-> projectToScreen(fnIn.point,
                                            [matrixWorld |-> fnIn.rotation,
                                             projection |-> [fov |-> fnIn.fov,
                                                             aspect |-> viewport]],
                                            viewport, fnIn.residue)]
    /\ UNCHANGED fnFrame

NextFn ==
    \/ ApplyGetScreenPosition
    \/ ApplyProjectToScreen

SpecFn == InitFn /\ [][NextFn]_vars

----------------------------------------------------------------------------
(* Claims about the camera controls, checked under Spec *)

\* C1: after any sequence of pointer-down, pointer-move, pointer-up, wheel, zoom and
\* reset events, in either variant, the camera pitch lies in [-PI/2, +PI/2].
C1_PitchWithinPoles ==
    /\ AngleFP(rotation.x) <= HalfPi
    /\ AngleFP(rotation.x) >= -HalfPi
    /\ rotation.x.q \in {-1, 0, 1}
    /\ rotation.x.q = 1 => rotation.x.k <= 0
    /\ rotation.x.q = -1 => rotation.x.k >= 0

\* a drag in the spherical variant ran into the upper pole and was clamped there
C1_Witness ==
    /\ variant = "spherical"
    /\ lastOp.op = "handleMouseMove"
    /\ lastOp.changed
    /\ rotation.x = Angle(0, 1)

\* C2: the field of view stays in [10, 120] degrees under wheel, zoom and reset, and
\* a wheel event of deltaY moves it to fov + deltaY * 0.05 cut off at 10 and at 120
\* (deltaY * 0.05 degrees are deltaY steps of the field of view).
C2_WheelStep ==
    lastOp'.op = "handleWheel" =>
        LET d == lastOp'.deltaY
        IN  fov' = IF fov + d > MaxFovDeg * StepsPerDegree THEN MaxFovDeg * StepsPerDegree
                   ELSE IF fov + d < MinFovDeg * StepsPerDegree THEN MinFovDeg * StepsPerDegree
                   ELSE fov + d

C2_FovWithinLimits ==
    /\ [](fov >= MinFovDeg * StepsPerDegree /\ fov <= MaxFovDeg * StepsPerDegree)
    /\ [][C2_WheelStep]_vars

\* a wheel event of a deltaY beyond the whole range pushed the field of view
\* against the upper limit
C2_Witness ==
    /\ lastOp.op = "handleWheel"
    /\ lastOp.deltaY = 3000
    /\ lastOp.changed
    /\ fov = MaxFovDeg * StepsPerDegree

\* C3: reset, in any reachable state, leaves yaw = 0, pitch = 0, field of view = 75.
C3_ResetYieldsDefault ==
    lastOp.op = "resetView" =>
        /\ rotation.x = ZeroAngle
        /\ rotation.y = ZeroAngle
        /\ fov = DefaultFovDeg * StepsPerDegree

\* reset ran in the middle of a drag, after the texture had loaded, and had a camera
\* away from the default to bring back
C3_Witness ==
    /\ lastOp.op = "resetView"
    /\ lastOp.changed
    /\ isDragging
    /\ ~isLoading

\* C4: zoom-in directly followed by zoom-out returns the field of view to the value f
\* it had before the pair whenever f - 10 >= 10.
C4_ZoomRoundTrip ==
    (/\ lastOp.op = "zoomOut"
     /\ lastOp.zoomedInFrom # 0
     /\ lastOp.zoomedInFrom - ZoomStepDeg * StepsPerDegree >= MinFovDeg * StepsPerDegree)
        => fov = lastOp.zoomedInFrom

\* the pair ran from 20 degrees, where the zoom-in lands exactly on the lower limit
C4_Witness ==
    /\ lastOp.op = "zoomOut"
    /\ lastOp.zoomedInFrom = 2 * ZoomStepDeg * StepsPerDegree
    /\ fov = lastOp.zoomedInFrom

----------------------------------------------------------------------------
(* Claims about the overlay, checked under SpecOverlay *)

CameraOps ==
    {"handleMouseDown", "handleMouseMove", "handleMouseUp", "handleWheel",
     "resetView", "zoomIn", "zoomOut"}

\* C5: the selection is always one configured hotspot or none; a marker click sets
\* it to the clicked hotspot whatever was selected before, the panel's close control
\* sets it to none, and no camera operation (drag, wheel, zoom, reset) changes it.
C5_SelectionStep ==
    /\ selectedHotspot' \in HotspotIds \cup {"null"}
    /\ lastOp'.op = "clickMarker" => selectedHotspot' = lastOp'.target
    /\ lastOp'.op = "closePanel" => selectedHotspot' = "null"
    /\ lastOp'.op \in CameraOps => selectedHotspot' = selectedHotspot

C5_SelectionSingle == [][C5_SelectionStep]_vars

\* a marker was clicked while another hotspot was selected, and took its place
C5_Witness ==
    /\ lastOp.op = "clickMarker"
    /\ lastOp.selectedBefore \in HotspotIds
    /\ lastOp.selectedBefore # lastOp.target
    /\ selectedHotspot = lastOp.target

----------------------------------------------------------------------------
(* Claims C6, C7 and C10, under SpecLife *)

LoadCompleted == textureLoad \in {"loaded", "failed"}

\* C6: Load State is true from the start until the texture request completes and
\* false from then on; the success callback has added the sphere and cleared Load
\* State, the failure callback has cleared Load State and added nothing; the scene
\* holds a sphere exactly when the load succeeded.
C6_LoadStateFollowsRequest ==
    /\ isLoading <=> ~LoadCompleted
    /\ ("sphere" \in sceneChildren) <=> (textureLoad = "loaded")
    /\ lastOp.op = "loadSuccess" => "sphere" \in sceneChildren /\ ~isLoading
    /\ lastOp.op = "loadError" => "sphere" \notin sceneChildren /\ ~isLoading

\* C7: after the teardown no frame request is pending and no frame has run, none
\* of the five listeners of the setup is registered, the render surface is off its
\* container and the renderer is disposed; while mounted exactly one frame request
\* is pending.
C7_TeardownReleasesAll ==
    /\ phase = "unmounted" =>
          /\ rafPending = {}
          /\ lastOp.op # "animate"
          /\ listeners \cap SetupListeners = {}
          /\ ~domAttached
          /\ disposed
    /\ phase = "mounted" => Cardinality(rafPending) = 1 /\ animationRef \in rafPending

\* C10: in the perspective variant the first frame, taken with the default camera,
\* marks jersey-display visible and does not mark all three other hotspots visible.
C10_FirstFrame ==
    variant = "perspective" /\ lastOp.op = "mount" =>
        /\ hotspotPositions["jersey-display"] # Undefined
        /\ hotspotPositions["jersey-display"].visible
        /\ \E id \in HotspotIds \ {"jersey-display"} :
              hotspotPositions[id] = Undefined \/ ~hotspotPositions[id].visible

C10_Witness ==
    /\ variant = "perspective"
    /\ lastOp.op = "mount"
    /\ rotation = [x |-> ZeroAngle, y |-> ZeroAngle]
    /\ fov = DefaultFov
    /\ MarkerRendered("jersey-display")
    /\ hotspotPositions["jersey-display"].x[1] = "num"
    /\ hotspotPositions["jersey-display"].x[2] \in 0 .. viewport.w
    /\ hotspotPositions["jersey-display"].y = Num(viewport.h \div 2)
    /\ ~MarkerRendered("basketball-collection")

----------------------------------------------------------------------------
(* Claims C8 and C9, under SpecFn *)

\* 100 %, in the unit of getScreenPosition's result
FullWidth == 100 * 18

\* C8 as stated: longitude 180 maps to a horizontal percentage of about 100 %
\* (here: at least 99 %).
C8_Longitude180NearFull ==
    fnOut.op = "getScreenPosition" /\ fnIn.longitude = 180 =>
        fnOut.result.left >= FullWidth - 18 /\ fnOut.result.left <= FullWidth

\* C8, amended: longitude 180 maps to 0 %, the place of longitude -180; every
\* longitude from -180 up to but not including 180 maps to (longitude + 180) / 360
\* of the width, which stays below 100 %.
C8_Longitude180Wraps ==
    fnOut.op = "getScreenPosition" =>
        /\ fnIn.longitude = 180 => fnOut.result.left = 0
        /\ fnIn.longitude >= -180 /\ fnIn.longitude < 180 =>
              /\ fnOut.result.left * 360 = (fnIn.longitude + 180) * FullWidth
              /\ fnOut.result.left < FullWidth

C8_Witness ==
    /\ fnOut.op = "getScreenPosition"
    /\ fnIn.longitude = 180
    /\ fnOut.result.left = 0

\* the depth of a point along the camera's backward axis (its view-space z), in
\* units of 1 / TrigOne; a depth that is not zero keeps its sign
Depth(p, rot, n) == CoordUnits(ViewCoords(p, rot, n).z)

\* C9: whatever the orientation and the field of view in [10, 120], projectToScreen
\* gives visible = false for a point of positive depth along the camera's backward
\* axis.
C9_BehindNotVisible ==
    fnOut.op = "projectToScreen" /\ Depth(fnIn.point, fnIn.rotation, fnIn.residue) > 0 =>
        ~fnOut.result.visible

C9_Witness ==
    /\ fnOut.op = "projectToScreen"
    /\ fnIn.fov = DefaultFov
    /\ fnIn.point = hotspotsPerspective["jersey-display"]
    /\ ~AtPole(fnIn.rotation)
    /\ Depth(fnIn.point, fnIn.rotation, fnIn.residue) = 1
    /\ ~fnOut.result.visible

----------------------------------------------------------------------------
(* Claim C11, under SpecDrag *)

\* the handlers that must leave yaw and pitch alone in any drag state
RotationKeepers ==
    {"handleMouseDown", "handleMouseUp", "handleWheel", "zoomIn", "zoomOut", "handleResize"}

C11_DragStep ==
    /\ lastOp'.op = "handleMouseDown" =>
          isDragging' /\ previousMouse' = lastOp'.pointer
    /\ lastOp'.op = "handleMouseUp" => ~isDragging'
    /\ isDragging' # isDragging => lastOp'.op \in {"handleMouseDown", "handleMouseUp"}
    /\ lastOp'.op = "handleMouseMove" /\ isDragging =>
          /\ rotation'.y = AngleMinus(rotation.y, lastOp'.pointer.x - previousMouse.x)
          /\ rotation'.x =
                ClampPitch(AngleMinus(rotation.x, lastOp'.pointer.y - previousMouse.y))
          /\ previousMouse' = lastOp'.pointer
    /\ lastOp'.op = "handleMouseMove" /\ ~isDragging =>
          rotation' = rotation /\ previousMouse' = previousMouse
    /\ lastOp'.op \in RotationKeepers => rotation' = rotation
    /\ rotation' # rotation =>
          \/ lastOp'.op = "handleMouseMove" /\ isDragging
          \/ lastOp'.op = "resetView"

\* C11: the drag flag is set by pointer-down, which records the pointer, and cleared
\* by pointer-up, and by nothing else; a pointer-move while dragging subtracts
\* 0.005 rad per pixel of movement since the recorded position from yaw and pitch,
\* clamps the pitch and records the new position; yaw and pitch change only by
\* such a move or by reset, and pointer-down, pointer-up, wheel, zoom, resize and
\* a pointer-move while idle leave them as they are.
C11_DragController == [][C11_DragStep]_vars

C11_Witness ==
    /\ lastOp.op = "handleMouseMove"
    /\ lastOp.changed
    /\ isDragging
    /\ previousMouse = lastOp.pointer
    /\ rotation.x = Angle(0, -1)
    /\ rotation.y # ZeroAngle

----------------------------------------------------------------------------
(* Claim C12, under SpecZoom *)

\* the handlers that assign camera.fov
FovWriters == {"handleWheel", "zoomIn", "zoomOut", "resetView"}

\* the anchors a frame computes from the camera's current field of view
AnchorsAtCurrentFov(ns) ==
    [id \in HotspotIds |->
        projectToScreen(hotspotsPerspective[id],
                        [matrixWorld |-> matrixWorld,
                         projection |-> [fov |-> fov, aspect |-> projection.aspect]],
                        viewport, ns[id])]

C12_ProjectionStep ==
    /\ lastOp'.op \in FovWriters => projection'.fov = fov'
    /\ lastOp'.op = "animate" /\ variant = "perspective" =>
          \E ns \in ResidueChoices(matrixWorld) : hotspotPositions' = AnchorsAtCurrentFov(ns)

\* C12: wheel, zoom-in, zoom-out and reset each leave the projection computed from
\* the field of view they set, whether idle or dragging; between handlers the
\* projection's field of view equals the camera's, and every frame projects the
\* hotspots with the camera's current field of view.
C12_ProjectionFresh == [](projection.fov = fov) /\ [][C12_ProjectionStep]_vars

C12_Witness ==
    /\ variant = "perspective"
    /\ lastOp.op = "animate"
    /\ isDragging
    /\ fov = MinFov + ZoomStep
    /\ projection.fov = fov
    /\ \E ns \in ResidueChoices(matrixWorld) : hotspotPositions = AnchorsAtCurrentFov(ns)

----------------------------------------------------------------------------
(* Claim C13, under SpecAnchors *)

\* drag, wheel, zoom, reset and resize
ViewChangers ==
    {"handleMouseMove", "handleWheel", "zoomIn", "zoomOut", "resetView", "handleResize"}

\* while the component is there, the spherical variant has a marker of every
\* hotspot in the DOM; the perspective variant has the marker of a hotspot there
\* exactly when hotspotPositions holds an anchor of it that is flagged visible,
\* placed at that anchor
C13_MarkerInv ==
    phase # "unmounted" =>
        /\ variant = "spherical" => \A id \in HotspotIds : markers[id] # NoMarker
        /\ variant = "perspective" =>
              \A id \in HotspotIds :
                 /\ markers[id] # NoMarker <=>
                       (hotspotPositions[id] # Undefined /\ hotspotPositions[id].visible)
                 /\ markers[id] # NoMarker =>
                       markers[id] = {[left |-> hotspotPositions[id].x,
                                       top |-> hotspotPositions[id].y]}

\* a drag, wheel, zoom, reset or resize of the spherical variant leaves every marker
\* where the last render put it; a frame of the perspective variant stores, for
\* every hotspot, the anchor the camera's matrices give at that frame
C13_AnchorStep ==
    /\ variant = "spherical" /\ lastOp'.op \in ViewChangers => markers' = markers
    /\ variant = "perspective" /\ lastOp'.op = "animate" =>
          \E ns \in ResidueChoices(matrixWorld) :
             \A id \in HotspotIds :
                hotspotPositions'[id] =
                   projectToScreen(hotspotsPerspective[id], Camera, viewport, ns[id])

\* C13: in the spherical variant every hotspot has a marker in every state and no
\* drag, wheel, zoom, reset or resize changes its anchor; in the perspective
\* variant a marker is rendered exactly when the hotspot's anchor has been computed
\* and is flagged visible, and every animation frame recomputes the anchors of all
\* hotspots.
C13_MarkersByVariant == [](C13_MarkerInv) /\ [][C13_AnchorStep]_vars

\* a drag of the spherical variant has turned the camera and React has rendered
\* again: the first hotspot's marker is where it was
C13_Witness ==
    /\ variant = "spherical"
    /\ lastOp.op = "handleMouseMove"
    /\ lastOp.changed
    /\ cameraRotation.y # ZeroAngle
    /\ \A id \in HotspotIds : markers[id] # NoMarker
    /\ markers["jersey-display"] = {[left |-> 5 * 225, top |-> 10 * 95]}

----------------------------------------------------------------------------
(* Claim C14, under SpecLife *)

\* the two continuation callbacks of the texture request
LoadCallbacks == {"loadSuccess", "loadError"}

\* C14: once the teardown has run no load callback acts: the scene gains no sphere
\* and Load State is not written (no callback calls its setter).  Unmount records
\* itself in lastOp, so a callback recorded there in an unmounted state ran after
\* the teardown.
C14_QuietAfterTeardown ==
    phase = "unmounted" => lastOp.op \notin LoadCallbacks

====
